---- MODULE Spec2Model ----
(***************************************************************************)
(* Model of the AO process template (cli/templates/rust/src/lib.rs): the   *)
(* process-wide key/value store STATE (the variable State) behind its     *)
(* Mutex, the ProcessState operations, the six action handlers and the     *)
(* dispatcher handle_message.                                              *)
(*                                                                         *)
(* Strings are run-length encoded: a string is a sequence of runs          *)
(* <<c, n>>, the character c repeated n times, adjacent runs having        *)
(* different characters.  "x".repeat(65) is << <<"x", 65>> >>.  The fixed  *)
(* texts of the program (response actions, error messages) are held as     *)
(* runs of one literal fragment each; only keys and values, which are      *)
(* spelt in characters, are ever measured.                                 *)
(***************************************************************************)
EXTENDS Integers, Sequences, FiniteSets, TLC

VARIABLES State, poisoned, call, ret, lastSet,
          lock, pc, tcall, tret, initial, view, acquired

\* The variables of the callers that run concurrently: the holder of the
\* Mutex, each caller's position, call and return value, the store the
\* callers started from, the store each caller found when it got the guard,
\* and how many times each caller has got the guard.
conc == <<lock, pc, tcall, tret, initial, view, acquired>>

vars == <<State, poisoned, call, ret, lastSet, conc>>

(***************************************************************************)
(* Bounds of the model and constants of the program.                       *)
(***************************************************************************)
NumKeys == 2
NumValues == 2

MaxKeyLen == 64
MaxValueLen == 1000

(***************************************************************************)
(* Strings.                                                                *)
(***************************************************************************)
EmptyStr == <<>>

Rep(c, n) == IF n = 0 THEN EmptyStr ELSE << <<c, n>> >>

Lit(text) == << <<text, 1>> >>

Concat(s, t) ==
    IF s = <<>> THEN t
    ELSE IF t = <<>> THEN s
    ELSE IF s[Len(s)][1] = t[1][1]
         THEN SubSeq(s, 1, Len(s) - 1)
                \o << <<t[1][1], s[Len(s)][2] + t[1][2]>> >>
                \o Tail(t)
         ELSE s \o t

RECURSIVE ConcatAll(_)
ConcatAll(parts) ==
    IF parts = <<>> THEN EmptyStr ELSE Concat(Head(parts), ConcatAll(Tail(parts)))

\* Does the text `piece` occur in the text `s`?  (str::contains)
Contains(s, piece) ==
    \/ piece = <<>>
    \/ /\ Len(piece) = 1
       /\ \E i \in 1..Len(s) : s[i][1] = piece[1][1] /\ s[i][2] >= piece[1][2]
    \/ /\ Len(piece) > 1
       /\ \E i \in 0..(Len(s) - Len(piece)) :
            /\ s[i + 1][1] = piece[1][1]
            /\ s[i + 1][2] >= piece[1][2]
            /\ s[i + Len(piece)][1] = piece[Len(piece)][1]
            /\ s[i + Len(piece)][2] >= piece[Len(piece)][2]
            /\ \A j \in 2..(Len(piece) - 1) : s[i + j] = piece[j]

\* Characters of the model that take two bytes in UTF-8.
TwoByteChars == {"é", "§"}

\* Characters for which char::is_alphanumeric is true: the Unicode
\* Alphabetic and Numeric classes, of which the ASCII letters and digits
\* are only a part.
AsciiAlphanumeric == {"a", "b", "k", "v", "x", "N", "o", "t", "f", "u", "n", "d", "0", "1"}
UnicodeAlphanumeric == AsciiAlphanumeric \cup {"é"}

is_alphanumeric(c) == c \in UnicodeAlphanumeric

Utf8Width(c) == IF c \in TwoByteChars THEN 2 ELSE 1

RECURSIVE SumRuns(_, _)
SumRuns(s, w) ==
    IF s = <<>> THEN 0
    ELSE w[Head(s)[1]] * Head(s)[2] + SumRuns(Tail(s), w)

\* str::len : the length in bytes of the UTF-8 encoding.
StrLen(s) == SumRuns(s, [c \in {r[1] : r \in {s[i] : i \in 1..Len(s)}} |-> Utf8Width(c)])

\* str::chars().count() : the number of characters.
CharCount(s) == SumRuns(s, [c \in {r[1] : r \in {s[i] : i \in 1..Len(s)}} |-> 1])

\* An is_empty that takes no text for empty.
is_empty_never(s) == FALSE

is_empty(s) == s = <<>>

\* key.chars().all(|c| c.is_alphanumeric() || c == '_' || c == '-')
KeyFormatOk(key) ==
    \A i \in 1..Len(key) :
        is_alphanumeric(key[i][1]) \/ key[i][1] = "_" \/ key[i][1] = "-"

\* The character class [A-Za-z0-9_-] of the documentation.
InAsciiClass(key) ==
    \A i \in 1..Len(key) : key[i][1] \in AsciiAlphanumeric \cup {"_", "-"}

\* format!("{}", n) of a usize: its decimal digits.
RECURSIVE Digits(_)
Digits(n) ==
    IF n < 10
    THEN Rep(<<"0", "1", "2", "3", "4", "5", "6", "7", "8", "9">>[n + 1], 1)
    ELSE Concat(Digits(n \div 10), Digits(n % 10))

(***************************************************************************)
(* Option and Result.                                                      *)
(***************************************************************************)
None == <<>>
Some(x) == <<x>>
unwrap_or(o, d) == IF o = None THEN d ELSE o[1]

Ok(v) == [ok |-> TRUE, val |-> v]
Err(e) == [ok |-> FALSE, err |-> e]

(***************************************************************************)
(* AOResponse.                                                             *)
(***************************************************************************)
EmptyMap == [x \in {} |-> <<>>]

new(target, action, data) ==
    [target |-> target, action |-> action, data |-> data, extra_fields |-> EmptyMap]

with_field(r, key, value) ==
    [r EXCEPT !.extra_fields =
        [f \in DOMAIN r.extra_fields \cup {key} |->
            IF f = key THEN value ELSE r.extra_fields[f]]]

error(target, message) == new(target, Lit("Error"), message)

(***************************************************************************)
(* STATE: Mutex<HashMap<String, String>>.  State is the map, a function    *)
(* whose domain is the set of keys present; poisoned is the Mutex's poison *)
(* flag.                                                                   *)
(***************************************************************************)
\* A HashMap insert that keeps the value of a key already present.
insert_keeping(map, key, value) ==
    [x \in DOMAIN map \cup {key} |-> IF x \in DOMAIN map THEN map[x] ELSE value]

\* An insertion that drops every other entry.
insert_alone(map, key, value) == [x \in {key} |-> value]

insert(map, key, value) ==
    [x \in DOMAIN map \cup {key} |-> IF x = key THEN value ELSE map[x]]

\* A removal that takes every entry with it.
map_remove_all(map, key) == EmptyMap

\* A removal that leaves the entry in the map.
map_remove_keeping(map, key) == map

map_remove(map, key) == [x \in DOMAIN map \ {key} |-> map[x]]

\* A lookup that finds nothing.
map_get_nothing(map, key) == None

map_get(map, key) == IF key \in DOMAIN map THEN Some(map[key]) ELSE None

LockErrorText ==
    Concat(Lit("State lock error: "), Lit("poisoned lock: another task failed inside"))

KeyLengthText == Lit("Key must be between 1 and 64 characters")
ValueLengthText == Lit("Value must be less than 1000 characters")

\* Each ProcessState operation yields its Result and the map it leaves.

\* A set that inserts before it checks the value.
ProcessState_set_insert_first(map, p, key, value) ==
    IF is_empty(key) \/ StrLen(key) > MaxKeyLen
    THEN [res |-> Err(KeyLengthText), state |-> map]
    ELSE IF p
    THEN [res |-> Err(LockErrorText), state |-> map]
    ELSE IF StrLen(value) > MaxValueLen
    THEN [res |-> Err(ValueLengthText), state |-> insert(map, key, value)]
    ELSE [res |-> Ok(<<>>), state |-> insert(map, key, value)]

ProcessState_set(map, p, key, value) ==
    IF is_empty(key) \/ StrLen(key) > MaxKeyLen
    THEN [res |-> Err(KeyLengthText), state |-> map]
    ELSE IF StrLen(value) > MaxValueLen
    THEN [res |-> Err(ValueLengthText), state |-> map]
    ELSE IF p
    THEN [res |-> Err(LockErrorText), state |-> map]
    ELSE [res |-> Ok(<<>>), state |-> insert(map, key, value)]

ProcessState_get(map, p, key) ==
    IF p THEN [res |-> Err(LockErrorText), state |-> map]
    ELSE [res |-> Ok(map_get(map, key)), state |-> map]

ProcessState_list(map, p) ==
    IF p THEN [res |-> Err(LockErrorText), state |-> map]
    ELSE [res |-> Ok(map), state |-> map]

\* A remove that reports is_none() in place of is_some().
ProcessState_remove_negated(map, p, key) ==
    IF p THEN [res |-> Err(LockErrorText), state |-> map]
    ELSE [res |-> Ok(map_get(map, key) = None), state |-> map_remove(map, key)]

ProcessState_remove(map, p, key) ==
    IF p THEN [res |-> Err(LockErrorText), state |-> map]
    ELSE [res |-> Ok(map_get(map, key) # None), state |-> map_remove(map, key)]

\* A clear that takes the lock and leaves the map as it is.
ProcessState_clear_nothing(map, p) ==
    IF p THEN [res |-> Err(LockErrorText), state |-> map]
    ELSE [res |-> Ok(<<>>), state |-> map]

ProcessState_clear(map, p) ==
    IF p THEN [res |-> Err(LockErrorText), state |-> map]
    ELSE [res |-> Ok(<<>>), state |-> EmptyMap]

\* A size that counts one entry too many.
ProcessState_size_off_by_one(map, p) ==
    IF p THEN [res |-> Err(LockErrorText), state |-> map]
    ELSE [res |-> Ok(Cardinality(DOMAIN map) + 1), state |-> map]

ProcessState_size(map, p) ==
    IF p THEN [res |-> Err(LockErrorText), state |-> map]
    ELSE [res |-> Ok(Cardinality(DOMAIN map)), state |-> map]

(***************************************************************************)
(* AOMessage: the fields the handlers read.  tags is an Option of a map    *)
(* from tag names to strings.                                              *)
(***************************************************************************)
Unknown == Lit("unknown")

tag(msg, name) ==
    IF msg.tags = None THEN None
    ELSE IF name \in DOMAIN msg.tags[1] THEN Some(msg.tags[1][name]) ELSE None

\* A sender that is taken for unknown whatever the message says.
from_or_unknown_ignoring_from(msg) == Lit("unknown")

\* msg.from.as_deref().unwrap_or("unknown")
from_or_unknown(msg) == unwrap_or(msg.from, Unknown)

(***************************************************************************)
(* Message handlers.  Each yields [res, state]: the Result<AOResponse,     *)
(* String> it returns and the map it leaves.                               *)
(***************************************************************************)
KeyRequiredText == Lit("Key is required")
ValueRequiredText == Lit("Value is required")
ActionRequiredText == Lit("Action is required")
InvalidKeyFormatText ==
    Concat(Lit("Invalid key format"),
           Lit(". Use alphanumeric characters, underscores, and hyphens only"))
NotFound ==
    << <<"N", 1>>, <<"o", 1>>, <<"t", 1>>, <<" ", 1>>, <<"f", 1>>,
       <<"o", 1>>, <<"u", 1>>, <<"n", 1>>, <<"d", 1>> >>

handle_info(msg, map, p) ==
    LET from == from_or_unknown(msg)
        size == ProcessState_size(map, p)
    IN  IF ~size.res.ok THEN [res |-> size.res, state |-> size.state]
        ELSE [res |-> Ok(new(from, Lit("Info-Response"),
                             Concat(Concat(Lit("Hello from AO Process (Rust)! "),
                                           Lit("State entries: ")),
                                    Digits(size.res.val)))),
              state |-> size.state]

handle_set(msg, map, p) ==
    LET from == from_or_unknown(msg)
        key == tag(msg, "Key")
        value == msg.data
    IN  IF key = None THEN [res |-> Err(KeyRequiredText), state |-> map]
        ELSE IF value = None THEN [res |-> Err(ValueRequiredText), state |-> map]
        ELSE IF ~KeyFormatOk(key[1])
        THEN [res |-> Ok(error(from, InvalidKeyFormatText)), state |-> map]
        ELSE LET set == ProcessState_set(map, p, key[1], value[1])
             IN  IF ~set.res.ok THEN [res |-> set.res, state |-> set.state]
                 ELSE [res |-> Ok(new(from, Lit("Set-Response"),
                                      Concat(Concat(Concat(Lit("Successfully set "), key[1]),
                                                    Lit(" to ")),
                                             value[1]))),
                       state |-> set.state]

handle_get(msg, map, p) ==
    LET from == from_or_unknown(msg)
        key == tag(msg, "Key")
    IN  IF key = None THEN [res |-> Err(KeyRequiredText), state |-> map]
        ELSE LET get == ProcessState_get(map, p, key[1])
             IN  IF ~get.res.ok THEN [res |-> get.res, state |-> get.state]
                 ELSE [res |-> Ok(with_field(new(from, Lit("Get-Response"),
                                                 unwrap_or(get.res.val, NotFound)),
                                             "Key", key[1])),
                       state |-> get.state]

\* The order in which a HashMap yields its entries is unspecified: an
\* iteration order is a sequence of the keys present, each once.
Orders(map) ==
    {o \in [1..Cardinality(DOMAIN map) -> DOMAIN map] :
        \A i, j \in DOMAIN o : o[i] = o[j] => i = j}

\* serde_json::to_string(&map): {"key":"value",...} in iteration order.
\* No character of the model's keys and values needs a JSON escape.
RECURSIVE json_entries(_, _, _)
json_entries(map, order, i) ==
    IF i > Len(order) THEN EmptyStr
    ELSE Concat(Concat(Concat(Concat(Concat(Concat(
             IF i = 1 THEN EmptyStr ELSE Lit(","),
             Lit("\"")), order[i]), Lit("\":\"")), map[order[i]]), Lit("\"")),
             json_entries(map, order, i + 1))

json_to_string(map, order) ==
    Concat(Concat(Lit("{"), json_entries(map, order, 1)), Lit("}"))

handle_list(msg, map, p, order) ==
    LET from == from_or_unknown(msg)
        list == ProcessState_list(map, p)
    IN  IF ~list.res.ok THEN [res |-> list.res, state |-> list.state]
        ELSE [res |-> Ok(new(from, Lit("List-Response"),
                             json_to_string(list.res.val, order))),
              state |-> list.state]

handle_remove(msg, map, p) ==
    LET from == from_or_unknown(msg)
        key == tag(msg, "Key")
    IN  IF key = None THEN [res |-> Err(KeyRequiredText), state |-> map]
        ELSE LET removed == ProcessState_remove(map, p, key[1])
             IN  IF ~removed.res.ok THEN [res |-> removed.res, state |-> removed.state]
                 ELSE [res |-> Ok(new(from, Lit("Remove-Response"),
                                      IF removed.res.val
                                      THEN Concat(Lit("Successfully removed "), key[1])
                                      ELSE Concat(Concat(Lit("Key "), key[1]),
                                                  Lit(" not found")))),
                       state |-> removed.state]

\* A Clear handler that answers without clearing.
handle_clear_unapplied(msg, map, p) ==
    [res |-> Ok(new(from_or_unknown(msg), Lit("Clear-Response"),
                    Lit("State cleared successfully"))),
     state |-> map]

handle_clear(msg, map, p) ==
    LET from == from_or_unknown(msg)
        clear == ProcessState_clear(map, p)
    IN  IF ~clear.res.ok THEN [res |-> clear.res, state |-> clear.state]
        ELSE [res |-> Ok(new(from, Lit("Clear-Response"),
                             Lit("State cleared successfully"))),
              state |-> clear.state]

(***************************************************************************)
(* The dispatcher.                                                         *)
(***************************************************************************)
\* The text of an earlier list of actions, without Clear.
UnknownActionText_five(action) ==
    ConcatAll(<<Lit("Unknown action: "), action, Lit(". Available actions: "),
                Lit("Info"), Lit(", "), Lit("Set"), Lit(", "), Lit("Get"), Lit(", "),
                Lit("List"), Lit(", "), Lit("Remove")>>)

UnknownActionText(action) ==
    ConcatAll(<<Lit("Unknown action: "), action, Lit(". Available actions: "),
                Lit("Info"), Lit(", "), Lit("Set"), Lit(", "), Lit("Get"), Lit(", "),
                Lit("List"), Lit(", "), Lit("Remove"), Lit(", "), Lit("Clear")>>)

handle_message(msg, map, p, order) ==
    LET action == tag(msg, "Action")
    IN  IF action = None THEN [res |-> Err(ActionRequiredText), state |-> map]
        ELSE IF action[1] = Lit("Info") THEN handle_info(msg, map, p)
        ELSE IF action[1] = Lit("Set") THEN handle_set(msg, map, p)
        ELSE IF action[1] = Lit("Get") THEN handle_get(msg, map, p)
        ELSE IF action[1] = Lit("List") THEN handle_list(msg, map, p, order)
        ELSE IF action[1] = Lit("Remove") THEN handle_remove(msg, map, p)
        ELSE IF action[1] = Lit("Clear") THEN handle_clear(msg, map, p)
        ELSE [res |-> Ok(error(from_or_unknown(msg), UnknownActionText(action[1]))),
              state |-> map]

(***************************************************************************)
(* Inputs.  A message carries the fields its action reads: a Set message   *)
(* any Key tag and any data, a Get or Remove message any Key tag, the      *)
(* others neither; any of them with or without a sender.                   *)
(***************************************************************************)
\* Ordinary keys and values: "k", "kk", ... and "v", "vv", ...
Keys == {Rep("k", i) : i \in 1..NumKeys}
Values == {Rep("v", i) : i \in 1..NumValues}

\* Keys and values at and around the limits of ProcessState::set and of the
\* key format check of handle_set.
KeyWithSpace == << <<"a", 1>>, <<" ", 1>>, <<"b", 1>> >>
KeyAccented == Rep("é", 1)

LimitKeys ==
    {EmptyStr, KeyWithSpace, KeyAccented,
     Rep("x", MaxKeyLen), Rep("x", MaxKeyLen + 1), Rep("é", MaxKeyLen \div 2 + 1)}

LimitValues ==
    {Rep("v", 1), Rep("x", MaxValueLen), Rep("x", MaxValueLen + 1),
     Rep("é", MaxValueLen \div 2 + 1)}

Sender == Lit("test-sender")

KnownActions ==
    {Lit("Info"), Lit("Set"), Lit("Get"), Lit("List"), Lit("Remove"), Lit("Clear")}

Actions == KnownActions \cup {Lit("UnknownAction"), Lit("info"), EmptyStr}

Opt(S) == {None} \cup {Some(x) : x \in S}

\* The tag map holding the Action and Key tags given.
TagsOf(action, key) ==
    [n \in (IF action = None THEN {} ELSE {"Action"})
             \cup (IF key = None THEN {} ELSE {"Key"}) |->
        IF n = "Action" THEN action[1] ELSE key[1]]

Reads(action, key, data) ==
    \/ action = Some(Lit("Set"))
    \/ action \in {Some(Lit("Get")), Some(Lit("Remove"))} /\ data = None
    \/ action = None /\ data = None
    \/ key = None /\ data = None

MessagesOver(actions, keys, values) ==
    {[from |-> f, data |-> d, tags |-> Some(TagsOf(a, k))] :
        <<f, a, k, d>> \in
            {x \in Opt({Sender}) \X Opt(actions) \X Opt(keys) \X Opt(values) :
                Reads(x[2], x[3], x[4])}}
      \cup {[from |-> f, data |-> None, tags |-> None] : f \in Opt({Sender})}

Messages == MessagesOver(Actions, Keys, Values)

LimitMessages == MessagesOver({Lit("Set")}, LimitKeys, LimitValues)

(***************************************************************************)
(* The state machine.  call is the last call made and ret what it          *)
(* returned; lastSet is a history variable: for each key, the value of the *)
(* latest successful set since which the key was neither removed nor the   *)
(* store cleared.                                                          *)
(***************************************************************************)
Recorded(h, key, value) ==
    [x \in DOMAIN h \cup {key} |-> IF x = key THEN value ELSE h[x]]

Forgotten(h, key) == [x \in DOMAIN h \ {key} |-> h[x]]

\* The callers of the concurrent specification, none of which has called.
NumThreads == 2
Threads == 1..NumThreads

NoCall == [op |-> "none"]

Idle ==
    /\ lock = 0
    /\ pc = [t \in Threads |-> "idle"]
    /\ tcall = [t \in Threads |-> NoCall]
    /\ tret = [t \in Threads |-> NoCall]
    /\ view = [t \in Threads |-> EmptyMap]
    /\ acquired = [t \in Threads |-> 0]

Init ==
    /\ State = EmptyMap
    /\ poisoned = FALSE
    /\ call = NoCall
    /\ ret = NoCall
    /\ lastSet = EmptyMap
    /\ initial = EmptyMap
    /\ Idle

\* ProcessState::set(key, value), called directly.
Set(key, value) ==
    LET r == ProcessState_set(State, poisoned, key, value)
    IN  /\ State' = r.state
        /\ call' = [op |-> "set", key |-> key, value |-> value]
        /\ ret' = r.res
        /\ lastSet' = IF r.res.ok THEN Recorded(lastSet, key, value) ELSE lastSet
        /\ UNCHANGED <<poisoned, conc>>

\* ProcessState::get(key), called directly.
Get(key) ==
    LET r == ProcessState_get(State, poisoned, key)
    IN  /\ State' = r.state
        /\ call' = [op |-> "get", key |-> key]
        /\ ret' = r.res
        /\ UNCHANGED <<poisoned, lastSet, conc>>

\* ProcessState::list(), called directly.
List ==
    LET r == ProcessState_list(State, poisoned)
    IN  /\ State' = r.state
        /\ call' = [op |-> "list"]
        /\ ret' = r.res
        /\ UNCHANGED <<poisoned, lastSet, conc>>

\* ProcessState::remove(key), called directly.
Remove(key) ==
    LET r == ProcessState_remove(State, poisoned, key)
    IN  /\ State' = r.state
        /\ call' = [op |-> "remove", key |-> key]
        /\ ret' = r.res
        /\ lastSet' = IF r.res.ok THEN Forgotten(lastSet, key) ELSE lastSet
        /\ UNCHANGED <<poisoned, conc>>

\* ProcessState::clear(), called directly.
Clear ==
    LET r == ProcessState_clear(State, poisoned)
    IN  /\ State' = r.state
        /\ call' = [op |-> "clear"]
        /\ ret' = r.res
        /\ lastSet' = IF r.res.ok THEN EmptyMap ELSE lastSet
        /\ UNCHANGED <<poisoned, conc>>

\* ProcessState::size(), called directly.
Size ==
    LET r == ProcessState_size(State, poisoned)
    IN  /\ State' = r.state
        /\ call' = [op |-> "size"]
        /\ ret' = r.res
        /\ UNCHANGED <<poisoned, lastSet, conc>>

\* The iteration orders a message can meet: only List iterates the map.
IterationOrders(msg, map) ==
    IF tag(msg, "Action") = Some(Lit("List")) THEN Orders(map) ELSE {<<>>}

IsResponse(r, action) == r.ok /\ r.val.action = Lit(action)

\* handle_message(&msg).
HandleMessage(msg) ==
    \E order \in IterationOrders(msg, State) :
        LET r == handle_message(msg, State, poisoned, order)
            key == tag(msg, "Key")
        IN  /\ State' = r.state
            /\ call' = [op |-> "handle_message", msg |-> msg]
            /\ ret' = r.res
            /\ lastSet' =
                  IF IsResponse(r.res, "Set-Response")
                  THEN Recorded(lastSet, key[1], msg.data[1])
                  ELSE IF IsResponse(r.res, "Remove-Response")
                  THEN Forgotten(lastSet, key[1])
                  ELSE IF IsResponse(r.res, "Clear-Response") THEN EmptyMap
                  ELSE lastSet
            /\ UNCHANGED <<poisoned, conc>>

\* The process driven by messages and by direct calls of the store, with
\* ordinary keys and values.
Next ==
    \/ \E key \in Keys, value \in Values : Set(key, value)
    \/ \E key \in Keys : Get(key)
    \/ List
    \/ \E key \in Keys : Remove(key)
    \/ Clear
    \/ Size
    \/ \E msg \in Messages : HandleMessage(msg)

Spec == Init /\ [][Next]_vars

\* The same process given keys and values at and around the limits.
NextLimits ==
    \/ \E key \in LimitKeys, value \in LimitValues : Set(key, value)
    \/ \E key \in LimitKeys : Remove(key)
    \/ \E msg \in LimitMessages : HandleMessage(msg)

SpecLimits == Init /\ [][NextLimits]_vars

(***************************************************************************)
(* The exports of the process: handle, get_state, clear_state.             *)
(*                                                                         *)
(* A raw text is well-formed JSON, held as the value it denotes, or is     *)
(* not, and then carries serde_json's description of the error.  A JSON    *)
(* value is a string, null, a number or an object.                         *)
(***************************************************************************)
JString(s) == [type |-> "string", s |-> s, fields |-> EmptyMap]
JNull == [type |-> "null", s |-> EmptyStr, fields |-> EmptyMap]
JNumber == [type |-> "number", s |-> EmptyStr, fields |-> EmptyMap]
JObject(fields) == [type |-> "object", s |-> EmptyStr, fields |-> fields]

WellFormed(value) == [wellformed |-> TRUE, value |-> value, why |-> EmptyStr]
Malformed(why) == [wellformed |-> FALSE, value |-> JNull, why |-> why]

InvalidTypeText == Lit("invalid type")

\* An Option<String> field: absent or null is None, a string is Some.
option_string(fields, name) ==
    IF name \notin DOMAIN fields \/ fields[name].type = "null" THEN Ok(None)
    ELSE IF fields[name].type = "string" THEN Ok(Some(fields[name].s))
    ELSE Err(InvalidTypeText)

\* The Option<HashMap<String, String>> field Tags.
option_map(fields, name) ==
    IF name \notin DOMAIN fields \/ fields[name].type = "null" THEN Ok(None)
    ELSE IF /\ fields[name].type = "object"
            /\ \A n \in DOMAIN fields[name].fields :
                  fields[name].fields[n].type = "string"
    THEN Ok(Some([n \in DOMAIN fields[name].fields |-> fields[name].fields[n].s]))
    ELSE Err(InvalidTypeText)

\* serde_json::from_str::<AOMessage>: fields that are missing are None and
\* fields AOMessage does not have are ignored.
from_str(raw) ==
    IF ~raw.wellformed THEN Err(raw.why)
    ELSE IF raw.value.type # "object" THEN Err(InvalidTypeText)
    ELSE LET from == option_string(raw.value.fields, "From")
             data == option_string(raw.value.fields, "Data")
             tags == option_map(raw.value.fields, "Tags")
         IN  IF ~from.ok THEN from
             ELSE IF ~data.ok THEN data
             ELSE IF ~tags.ok THEN tags
             ELSE Ok([from |-> from.val, data |-> data.val, tags |-> tags.val])

\* serde_json::to_string(&response): Target, Action and Data, and the
\* extra fields flattened beside them.  The encoded text is held as the
\* object it denotes.
to_string(response) ==
    [n \in {"Target", "Action", "Data"} \cup DOMAIN response.extra_fields |->
        IF n = "Target" THEN response.target
        ELSE IF n = "Action" THEN response.action
        ELSE IF n = "Data" THEN response.data
        ELSE response.extra_fields[n]]

ParseErrorText(e) == Concat(Lit("JSON parse error: "), e)

\* An Err arm of handle that answers "unknown" whatever the sender.
handle_error_to_unknown(msg, e) == error(Unknown, e)

\* The Err arm of handle: the Error response for a failure of
\* handle_message.
handle_error(msg, e) == error(from_or_unknown(msg), e)

\* The value of a one-element set.  A value bound by {... : x \in {e}} is
\* computed once, where a LET would compute e at every use of x.
The(S) == CHOOSE x \in S : TRUE

handle(raw, map, p, order) ==
    The({IF ~parsed.ok
         THEN [res |-> to_string(error(Unknown, ParseErrorText(parsed.err))),
               state |-> map]
         ELSE The({[res |-> to_string(IF r.res.ok THEN r.res.val
                                      ELSE handle_error(parsed.val, r.res.err)),
                    state |-> r.state] :
                   r \in {handle_message(parsed.val, map, p, order)}}) :
         parsed \in {from_str(raw)}})

EmptyObjectText == Concat(Lit("{"), Lit("}"))

\* A get_state that answers "{}" whatever the store holds.
get_state_empty(map, p, order) == [res |-> EmptyObjectText, state |-> map]

get_state(map, p, order) ==
    LET list == ProcessState_list(map, p)
    IN  IF list.res.ok
        THEN [res |-> json_to_string(list.res.val, order), state |-> list.state]
        ELSE [res |-> EmptyObjectText, state |-> list.state]

clear_state(map, p) ==
    LET clear == ProcessState_clear(map, p)
    IN  [res |-> clear.res.ok, state |-> clear.state]

\* The raw texts given to handle: the encodings of messages, and texts
\* that are no JSON, no object, or an object with a field of another type.
to_json(msg) ==
    LET present == (IF msg.from = None THEN {} ELSE {"From"})
                     \cup (IF msg.data = None THEN {} ELSE {"Data"})
                     \cup (IF msg.tags = None THEN {} ELSE {"Tags"})
    IN  WellFormed(JObject(
            [n \in present |->
                IF n = "From" THEN JString(msg.from[1])
                ELSE IF n = "Data" THEN JString(msg.data[1])
                ELSE JObject([a \in DOMAIN msg.tags[1] |-> JString(msg.tags[1][a])])]))

OddTexts ==
    {Malformed(Lit("expected value at line 1 column 1")),
     Malformed(Lit("EOF while parsing a value at line 1 column 0")),
     WellFormed(JNumber),
     WellFormed(JObject([n \in {"From"} |-> JNumber])),
     WellFormed(JObject([n \in {"From", "Tags"} |->
                           IF n = "From" THEN JString(Sender) ELSE JString(Lit("Info"))])),
     WellFormed(JObject([n \in {"Tags"} |-> JObject([a \in {"Action"} |-> JNumber])])),
     WellFormed(JObject([n \in {"From", "Tags", "Extra"} |->
                           IF n = "From" THEN JNull
                           ELSE IF n = "Extra" THEN JNumber
                           ELSE JObject([a \in {"Action"} |-> JString(Lit("Info"))])]))}

\* The exports are driven with every key and one value.
HostValues == {Rep("v", 1)}

HostMessages == MessagesOver(Actions, Keys, HostValues)

RawTexts == {to_json(msg) : msg \in HostMessages} \cup OddTexts

\* handle(message_json).
Handle(raw) ==
    LET parsed == from_str(raw)
    IN  \E order \in (IF parsed.ok THEN IterationOrders(parsed.val, State) ELSE {<<>>}) :
            LET r == handle(raw, State, poisoned, order)
            IN  /\ State' = r.state
                /\ call' = [op |-> "handle", raw |-> raw]
                /\ ret' = r.res
                /\ lastSet' =
                      IF r.res["Action"] = Lit("Set-Response")
                      THEN Recorded(lastSet, tag(parsed.val, "Key")[1], parsed.val.data[1])
                      ELSE IF r.res["Action"] = Lit("Remove-Response")
                      THEN Forgotten(lastSet, tag(parsed.val, "Key")[1])
                      ELSE IF r.res["Action"] = Lit("Clear-Response") THEN EmptyMap
                      ELSE lastSet
                /\ UNCHANGED <<poisoned, conc>>

\* get_state().
GetState ==
    \E order \in Orders(State) :
        LET r == get_state(State, poisoned, order)
        IN  /\ State' = r.state
            /\ call' = [op |-> "get_state", order |-> order]
            /\ ret' = r.res
            /\ UNCHANGED <<poisoned, lastSet, conc>>

\* clear_state().
ClearState ==
    LET r == clear_state(State, poisoned)
    IN  /\ State' = r.state
        /\ call' = [op |-> "clear_state"]
        /\ ret' = r.res
        /\ lastSet' = IF r.res THEN EmptyMap ELSE lastSet
        /\ UNCHANGED <<poisoned, conc>>

\* A caller of ProcessState::set panics inside HashMap::insert while it
\* holds the guard (the one panic the standard library allows there: the
\* table's capacity overflows).  The guard is dropped during the unwinding,
\* which poisons the Mutex for good; the entry is not inserted.
SetPanics(key, value) ==
    /\ ~poisoned
    /\ ProcessState_set(State, poisoned, key, value).res.ok
    /\ poisoned' = TRUE
    /\ call' = [op |-> "set_panicked", key |-> key, value |-> value]
    /\ ret' = NoCall
    /\ UNCHANGED <<State, lastSet, conc>>

\* The process as its host and its tests drive it, with a Mutex that can
\* get poisoned.
NextHost ==
    \/ \E raw \in RawTexts : Handle(raw)
    \/ GetState
    \/ ClearState
    \/ \E key \in Keys, value \in HostValues : Set(key, value)
    \/ \E key \in Keys : Get(key)
    \/ List
    \/ \E key \in Keys : Remove(key)
    \/ Clear
    \/ Size
    \/ \E key \in Keys, value \in HostValues : SetPanics(key, value)

SpecHost == Init /\ [][NextHost]_vars

(***************************************************************************)
(* Callers on several threads.  Every caller makes one call; a call that   *)
(* comes to STATE.lock() waits until no other caller holds the guard, gets *)
(* the guard and with it the store, works on the store, and drops the      *)
(* guard as it returns.                                                    *)
(***************************************************************************)
StoreOps == {"set", "get", "list", "remove", "clear", "size"}

\* Does the handling of the message come to the lock of the store?  It does
\* when the action is known, the tags and the data the action needs are
\* there, and a Set's key and value pass the checks made before the lock.
ComesToTheLock(msg) ==
    LET action == tag(msg, "Action")
        key == tag(msg, "Key")
    IN  \/ action \in {Some(Lit("Info")), Some(Lit("List")), Some(Lit("Clear"))}
        \/ action \in {Some(Lit("Get")), Some(Lit("Remove"))} /\ key # None
        \/ /\ action = Some(Lit("Set"))
           /\ key # None
           /\ msg.data # None
           /\ KeyFormatOk(key[1])
           /\ StrLen(key[1]) \in 1..MaxKeyLen
           /\ StrLen(msg.data[1]) <= MaxValueLen

\* let key = format!("key{}", i); let value = format!("value{}", i);
ThreadKey(t) == Rep("k", t)
ThreadValue(t) == Rep("v", t)

SharedKey == ThreadKey(1)

RemoveMessage ==
    [from |-> Some(Sender), data |-> None,
     tags |-> Some(TagsOf(Some(Lit("Remove")), Some(SharedKey)))]

InfoMessage ==
    [from |-> Some(Sender), data |-> None, tags |-> Some(TagsOf(Some(Lit("Info")), None))]

NoActionMessage == [from |-> Some(Sender), data |-> None, tags |-> None]

OwnSet(t) == [op |-> "set", key |-> ThreadKey(t), value |-> ThreadValue(t)]

SetMessage(t) ==
    [from |-> Some(Sender), data |-> Some(ThreadValue(t)),
     tags |-> Some(TagsOf(Some(Lit("Set")), Some(ThreadKey(t))))]

\* The calls of handle the caller t may make.
HandleCallsOf(t) ==
    {[op |-> "handle", raw |-> to_json(SetMessage(t))],
     [op |-> "handle", raw |-> to_json(RemoveMessage)],
     [op |-> "handle", raw |-> to_json(InfoMessage)],
     [op |-> "handle", raw |-> to_json(NoActionMessage)]}

\* The calls the caller t may make.
CallsOf(t) ==
    {OwnSet(t),
     [op |-> "remove", key |-> SharedKey],
     [op |-> "get", key |-> SharedKey],
     [op |-> "clear"],
     [op |-> "list"],
     [op |-> "size"]} \cup HandleCallsOf(t)

\* The stores the callers may start from.
InitialStores ==
    {EmptyMap,
     [k \in {SharedKey} |-> Rep("w", 1)],
     [k \in {SharedKey, ThreadKey(2)} |-> Rep("w", 1)]}

\* The call c made on the store map.
run(c, map, p) ==
    IF c.op = "set" THEN ProcessState_set(map, p, c.key, c.value)
    ELSE IF c.op = "remove" THEN ProcessState_remove(map, p, c.key)
    ELSE IF c.op = "clear" THEN ProcessState_clear(map, p)
    ELSE IF c.op = "get" THEN ProcessState_get(map, p, c.key)
    ELSE IF c.op = "list" THEN ProcessState_list(map, p)
    ELSE IF c.op = "size" THEN ProcessState_size(map, p)
    ELSE handle(c.raw, map, p, <<>>)

\* Does the call come to STATE.lock()?
comes_to_the_lock(c) ==
    IF c.op = "set"
    THEN ~(is_empty(c.key) \/ StrLen(c.key) > MaxKeyLen \/ StrLen(c.value) > MaxValueLen)
    ELSE IF c.op = "handle"
    THEN from_str(c.raw).ok /\ ComesToTheLock(from_str(c.raw).val)
    ELSE TRUE

\* A lock that lets every caller in.
can_lock_always(holder) == TRUE

\* Mutex::lock gives the guard when no caller holds it.
can_lock(holder) == holder = 0

\* A guard whose drop leaves the Mutex locked.
unlock_never(holder) == holder

\* The drop of the MutexGuard.
unlock(holder) == 0

\* The callers have made their calls, the caller t one of calls[t], and
\* none has taken a step.
Started(calls) ==
    /\ State \in InitialStores
    /\ initial = State
    /\ poisoned = FALSE
    /\ call = NoCall
    /\ ret = NoCall
    /\ lastSet = EmptyMap
    /\ lock = 0
    /\ pc = [t \in Threads |-> "called"]
    /\ tcall \in {c \in [Threads -> UNION {calls[t] : t \in Threads}] :
                    \A t \in Threads : c[t] \in calls[t]}
    /\ tret = [t \in Threads |-> NoCall]
    /\ view = [t \in Threads |-> EmptyMap]
    /\ acquired = [t \in Threads |-> 0]

InitConc == Started([t \in Threads |-> CallsOf(t)])

InitHandle == Started([t \in Threads |-> HandleCallsOf(t)])

\* A call that returns without coming to the lock.
ReturnEarly(t) ==
    /\ pc[t] = "called"
    /\ ~comes_to_the_lock(tcall[t])
    /\ tret' = [tret EXCEPT ![t] = run(tcall[t], State, poisoned).res]
    /\ pc' = [pc EXCEPT ![t] = "returned"]
    /\ UNCHANGED <<State, poisoned, call, ret, lastSet,
                   lock, tcall, initial, view, acquired>>

\* STATE.lock(): the caller gets the guard, and the store as it is.
Acquire(t) ==
    /\ pc[t] = "called"
    /\ comes_to_the_lock(tcall[t])
    /\ can_lock(lock)
    /\ lock' = t
    /\ view' = [view EXCEPT ![t] = State]
    /\ acquired' = [acquired EXCEPT ![t] = @ + 1]
    /\ pc' = [pc EXCEPT ![t] = "inside"]
    /\ UNCHANGED <<State, poisoned, call, ret, lastSet, tcall, tret, initial>>

\* The work on the store the caller got, the drop of the guard, and the
\* return (of a handler: with the response made of what the store gave).
Leave(t) ==
    /\ pc[t] = "inside"
    /\ \E r \in {run(tcall[t], view[t], poisoned)} :
          /\ State' = r.state
          /\ tret' = [tret EXCEPT ![t] = r.res]
    /\ lock' = unlock(lock)
    /\ pc' = [pc EXCEPT ![t] = "returned"]
    /\ UNCHANGED <<poisoned, call, ret, lastSet, tcall, initial, view, acquired>>

\* The step of the caller t.
Step(t) ==
    \/ ReturnEarly(t)
    \/ Acquire(t)
    \/ Leave(t)

NextConc == \E t \in Threads : Step(t)

SpecConc == InitConc /\ [][NextConc]_vars

\* Callers of handle, each of which takes in the end the step it can take.
SpecConcFair ==
    /\ InitHandle
    /\ [][NextConc]_vars
    /\ \A t \in Threads : WF_vars(Step(t))

(***************************************************************************)
(* The process driven by messages alone: the ordinary messages, and Sets   *)
(* that the handler or the store turns down for the key or the value.      *)
(***************************************************************************)
BadKeys == {EmptyStr, KeyWithSpace, Rep("x", MaxKeyLen + 1)}

BadValues == {Rep("x", MaxValueLen + 1)}

FrameMessages ==
    Messages \cup MessagesOver({Lit("Set")}, Keys \cup BadKeys, Values \cup BadValues)

NextFrame == \E msg \in FrameMessages : HandleMessage(msg)

SpecFrame == Init /\ [][NextFrame]_vars

(***************************************************************************)
(* The process driven by Set, Get and Remove messages whose values include *)
(* the text handle_get answers for an absent key, and a text close to it.  *)
(***************************************************************************)
AlmostNotFound ==
    << <<"n", 1>>, <<"o", 1>>, <<"t", 1>>, <<" ", 1>>, <<"f", 1>>,
       <<"o", 1>>, <<"u", 1>>, <<"n", 1>>, <<"d", 1>> >>

NotFoundValues == {Rep("v", 1), NotFound, AlmostNotFound}

NotFoundMessages ==
    MessagesOver({Lit("Set"), Lit("Get"), Lit("Remove")}, Keys, NotFoundValues)

NextNotFound == \E msg \in NotFoundMessages : HandleMessage(msg)

SpecNotFound == Init /\ [][NextNotFound]_vars

(***************************************************************************)
(* Properties.                                                             *)
(***************************************************************************)
Dispatched(c, action) ==
    c.op = "handle_message" /\ tag(c.msg, "Action") = Some(Lit(action))

DispatchedWithKey(c, action) == Dispatched(c, action) /\ tag(c.msg, "Key") # None

KeyTag(c) == tag(c.msg, "Key")[1]

Size_(map) == Cardinality(DOMAIN map)

OthersKept(before, after, key) ==
    \A x \in DOMAIN before \ {key} : x \in DOMAIN after /\ after[x] = before[x]

\* C1: a dispatched Get for a key k whose latest successful Set was followed
\* by no Remove of k and no Clear returns a Get-Response whose data is the
\* value of that Set and whose extension field Key is k.
C1_GetReturnsLatestSet ==
    (DispatchedWithKey(call, "Get") /\ KeyTag(call) \in DOMAIN lastSet)
        => /\ ret.ok
           /\ ret.val.action = Lit("Get-Response")
           /\ ret.val.data = lastSet[KeyTag(call)]
           /\ DOMAIN ret.val.extra_fields = {"Key"}
           /\ ret.val.extra_fields["Key"] = KeyTag(call)

C1_Witness ==
    /\ DispatchedWithKey(call, "Get")
    /\ KeyTag(call) \in DOMAIN lastSet
    /\ ret.ok
    /\ ret.val.data = Rep("v", 2)
    /\ \E k \in DOMAIN State : State[k] # Rep("v", 2)

\* C2: a dispatched Get for a key never Set, or removed or cleared since its
\* last Set, returns a Get-Response whose data is the literal "Not found".
C2_GetOfUnsetKeyIsNotFound ==
    (DispatchedWithKey(call, "Get") /\ KeyTag(call) \notin DOMAIN lastSet)
        => /\ ret.ok
           /\ ret.val.action = Lit("Get-Response")
           /\ ret.val.data = NotFound

C2_Witness ==
    /\ DispatchedWithKey(call, "Get")
    /\ KeyTag(call) \notin DOMAIN lastSet
    /\ ret.ok
    /\ ret.val.data = NotFound
    /\ State # EmptyMap

\* C3: Remove of an absent key returns false (handler text "Key k not
\* found") and leaves the store size as it was; Remove of a present key
\* returns true (handler text "Successfully removed k"), decreases the size
\* by exactly one, leaves every other entry unchanged, and a Get of that key
\* that follows finds it absent.
C3_RemoveStep ==
    /\ call'.op = "remove" =>
          IF call'.key \in DOMAIN State
          THEN /\ ret' = Ok(TRUE)
               /\ Size_(State') = Size_(State) - 1
               /\ call'.key \notin DOMAIN State'
               /\ OthersKept(State, State', call'.key)
          ELSE /\ ret' = Ok(FALSE)
               /\ Size_(State') = Size_(State)
    /\ DispatchedWithKey(call', "Remove") =>
          IF KeyTag(call') \in DOMAIN State
          THEN /\ ret'.ok
               /\ ret'.val.action = Lit("Remove-Response")
               /\ ret'.val.data = Concat(Lit("Successfully removed "), KeyTag(call'))
               /\ Size_(State') = Size_(State) - 1
               /\ KeyTag(call') \notin DOMAIN State'
               /\ OthersKept(State, State', KeyTag(call'))
          ELSE /\ ret'.ok
               /\ ret'.val.action = Lit("Remove-Response")
               /\ ret'.val.data =
                     ConcatAll(<<Lit("Key "), KeyTag(call'), Lit(" not found")>>)
               /\ Size_(State') = Size_(State)
    /\ (call.op = "remove" /\ ret = Ok(TRUE) /\ call'.op = "get"
          /\ call'.key = call.key) => ret' = Ok(None)
    /\ (DispatchedWithKey(call, "Remove") /\ ret.ok
          /\ Contains(ret.val.data, Lit("Successfully removed "))
          /\ DispatchedWithKey(call', "Get") /\ KeyTag(call') = KeyTag(call))
          => ret'.ok /\ ret'.val.data = NotFound

C3_Remove == [][C3_RemoveStep]_vars

C3_Witness ==
    /\ DispatchedWithKey(call, "Remove")
    /\ ret.ok
    /\ ret.val.data = Concat(Lit("Successfully removed "), KeyTag(call))
    /\ State # EmptyMap

\* C4: Clear, from any store state, leaves size() == 0, and Clear applied
\* again right after a Clear leaves the same store state and returns the
\* same response (Clear-Response, "State cleared successfully").
C4_ClearStep ==
    /\ call'.op = "clear" =>
          /\ ret' = Ok(<<>>)
          /\ ProcessState_size(State', poisoned').res = Ok(0)
    /\ Dispatched(call', "Clear") =>
          /\ ret' = Ok(new(from_or_unknown(call'.msg), Lit("Clear-Response"),
                           Lit("State cleared successfully")))
          /\ ProcessState_size(State', poisoned').res = Ok(0)
    /\ (call.op = "clear" /\ call'.op = "clear") => State' = State /\ ret' = ret
    /\ (Dispatched(call, "Clear") /\ Dispatched(call', "Clear")) =>
          /\ State' = State
          /\ ret'.val.action = ret.val.action
          /\ ret'.val.data = ret.val.data
          /\ ret'.val.extra_fields = ret.val.extra_fields
          /\ (call'.msg.from = call.msg.from => ret' = ret)

C4_Clear == [][C4_ClearStep]_vars

C4_Witness ==
    /\ Dispatched(call, "Clear")
    /\ ret.ok
    /\ ret.val.action = Lit("Clear-Response")
    /\ State = EmptyMap
    /\ lastSet = EmptyMap

\* The target every response for a message must carry.
SenderOrUnknown(msg) == IF msg.from = None THEN Lit("unknown") ELSE msg.from[1]

\* The key lengths and characters the documentation allows.
DocumentedKey(key) ==
    /\ CharCount(key) >= 1
    /\ CharCount(key) <= MaxKeyLen
    /\ InAsciiClass(key)

LongValue(value) == CharCount(value) > MaxValueLen

\* A Set turned down: a failure, or the Error response for the key format.
Rejected(r) ==
    \/ ~r.ok
    \/ /\ r.val.action = Lit("Error")
       /\ Contains(r.val.data, Lit("Invalid key format"))

\* C5: a dispatched Set whose key has length 0 or more than 64, or a
\* character outside [A-Za-z0-9_-], is rejected (a failure, or an Error
\* response whose data contains "Invalid key format") and the store is
\* unmodified.
C5_BadKeyStep ==
    (DispatchedWithKey(call', "Set") /\ ~DocumentedKey(KeyTag(call')))
        => Rejected(ret') /\ State' = State

C5_SetOfBadKeyRejected == [][C5_BadKeyStep]_vars

\* C6, as stated: for every value longer than 1000 characters, set and the
\* dispatched Set fail with an error containing "Value must be less than
\* 1000 characters" and the store is unmodified.
C6_StatedStep ==
    /\ (call'.op = "set" /\ LongValue(call'.value))
          => /\ ~ret'.ok
             /\ Contains(ret'.err, ValueLengthText)
             /\ State' = State
    /\ (Dispatched(call', "Set") /\ call'.msg.data # None
          /\ LongValue(call'.msg.data[1]))
          => /\ ~ret'.ok
             /\ Contains(ret'.err, ValueLengthText)
             /\ State' = State

C6_AmendedStep ==
    /\ (call'.op = "set" /\ LongValue(call'.value))
          => /\ ~ret'.ok
             /\ State' = State
             /\ DocumentedKey(call'.key) => Contains(ret'.err, ValueLengthText)
             /\ (CharCount(call'.key) = 0 \/ CharCount(call'.key) > MaxKeyLen)
                   => ret'.err = KeyLengthText
    /\ (Dispatched(call', "Set") /\ call'.msg.data # None
          /\ LongValue(call'.msg.data[1]))
          => /\ Rejected(ret')
             /\ State' = State
             /\ (tag(call'.msg, "Key") # None /\ DocumentedKey(KeyTag(call')))
                   => ~ret'.ok /\ Contains(ret'.err, ValueLengthText)

C7_SetSucceedsWithinLimits ==
    call.op = "set" =>
        LET keyOk == CharCount(call.key) >= 1 /\ CharCount(call.key) <= MaxKeyLen
            valueOk == CharCount(call.value) <= MaxValueLen
        IN  /\ ret.ok <=> (keyOk /\ valueOk)
            /\ ret.ok => /\ call.key \in DOMAIN State
                         /\ State[call.key] = call.value
            /\ ~keyOk => ret = Err(KeyLengthText)
            /\ (keyOk /\ ~valueOk) => ret = Err(ValueLengthText)

\* C8: a message whose Action tag is not exactly one of Info, Set, Get, List,
\* Remove, Clear yields an Error response, addressed to the sender or to
\* "unknown", whose data names the unknown action and lists the six known
\* actions, and the store is unchanged.
C8_UnknownActionStep ==
    (call'.op = "handle_message" /\ tag(call'.msg, "Action") # None
       /\ tag(call'.msg, "Action")[1] \notin KnownActions)
        => /\ ret'.ok
           /\ ret'.val.action = Lit("Error")
           /\ ret'.val.target = SenderOrUnknown(call'.msg)
           /\ Contains(ret'.val.data,
                       Concat(Lit("Unknown action: "), tag(call'.msg, "Action")[1]))
           /\ \A a \in KnownActions : Contains(ret'.val.data, a)
           /\ State' = State

C8_UnknownAction == [][C8_UnknownActionStep]_vars

C8_Witness ==
    /\ call.op = "handle_message"
    /\ tag(call.msg, "Action") = Some(Lit("info"))
    /\ call.msg.from = None
    /\ ret.ok
    /\ ret.val.action = Lit("Error")
    /\ ret.val.target = Lit("unknown")
    /\ State # EmptyMap

\* C9: a message with no Action tag (no tags, or tags without an Action
\* entry) yields, as the value handle_message returns, an Error response
\* whose action is "Error" and whose data contains "Action is required".
C9_MissingActionYieldsErrorResponse ==
    (call.op = "handle_message" /\ tag(call.msg, "Action") = None)
        => /\ ret.ok
           /\ ret.val.action = Lit("Error")
           /\ Contains(ret.val.data, Lit("Action is required"))

\* C10: handle_message lets no handler failure past itself: a Set, Get or
\* Remove without a Key tag, a Set without data, and every other message
\* with a known action is answered with a Response, the failures with an
\* Error response addressed to the sender or "unknown" that carries the
\* failure's text.
C10_HandlerFailuresBecomeResponses ==
    (call.op = "handle_message" /\ tag(call.msg, "Action") # None
       /\ tag(call.msg, "Action")[1] \in KnownActions)
        => /\ ret.ok
           /\ ret.val.target = SenderOrUnknown(call.msg)
           /\ (tag(call.msg, "Action")[1] \in {Lit("Set"), Lit("Get"), Lit("Remove")}
                 /\ tag(call.msg, "Key") = None)
                 => /\ ret.val.action = Lit("Error")
                    /\ ret.val.data = Lit("Key is required")
           /\ (Dispatched(call, "Set") /\ tag(call.msg, "Key") # None
                 /\ call.msg.data = None)
                 => /\ ret.val.action = Lit("Error")
                    /\ ret.val.data = Lit("Value is required")

\* The message handle parses out of the raw text of the call c.
Parsed(c) == from_str(c.raw).val

HandleParsed(c) == c.op = "handle" /\ from_str(c.raw).ok

HandleUnparsed(c) == c.op = "handle" /\ ~from_str(c.raw).ok

\* Does handle_message fail on the message, in the store and with the lock
\* as they are?
Fails(msg, map, p) ==
    \A order \in IterationOrders(msg, map) : ~handle_message(msg, map, p, order).res.ok

IsEncodedResponse(text) == {"Target", "Action", "Data"} \subseteq DOMAIN text

\* C11: handle answers every raw text with an encoded response.  A text
\* that does not parse as a message gets action "Error", target "unknown"
\* and data describing the parse error, and leaves the store as it was; a
\* message on which handle_message fails gets an Error response whose
\* target is the sender, or "unknown" without one.
C11_HandleStep ==
    call'.op = "handle" =>
        /\ IsEncodedResponse(ret')
        /\ HandleUnparsed(call') =>
              /\ ret'["Action"] = Lit("Error")
              /\ ret'["Target"] = Lit("unknown")
              /\ Contains(ret'["Data"], Lit("JSON parse error: "))
              /\ Contains(ret'["Data"], from_str(call'.raw).err)
              /\ State' = State
        /\ (HandleParsed(call') /\ Fails(Parsed(call'), State, poisoned)) =>
              /\ ret'["Action"] = Lit("Error")
              /\ ret'["Target"] = SenderOrUnknown(Parsed(call'))

C11_HandleIsTotal == [][C11_HandleStep]_vars

\* A message with a sender and an action but no key failed in handle_message
\* and was answered with an Error response, with entries in the store.
C11_Witness ==
    /\ HandleParsed(call)
    /\ Parsed(call).from # None
    /\ State # EmptyMap
    /\ ret["Action"] = Lit("Error")
    /\ ret["Target"] = Sender
    /\ ret["Data"] = KeyRequiredText

\* A text that is no JSON was answered, with entries in the store.
C11_WitnessUnparsed ==
    /\ HandleUnparsed(call)
    /\ State # EmptyMap
    /\ ret["Target"] = Lit("unknown")

C15_LockStep ==
    /\ poisoned =>
          /\ State' = State
          /\ call'.op \in StoreOps =>
                ~ret'.ok /\ Contains(ret'.err, Lit("State lock error: "))
          /\ call'.op = "handle" => IsEncodedResponse(ret')
          /\ (HandleParsed(call') /\ ComesToTheLock(Parsed(call'))) =>
                /\ ret'["Action"] = Lit("Error")
                /\ Contains(ret'["Data"], Lit("State lock error: "))
          /\ call'.op = "get_state" => ret' = Concat(Lit("{"), Lit("}"))
          /\ call'.op = "clear_state" => ret' = FALSE
    /\ ~poisoned' =>
          /\ call'.op = "get_state" =>
                /\ ret' = json_to_string(State, call'.order)
                /\ call'.order \in Orders(State)
                /\ State' = State
          /\ call'.op = "clear_state" => ret' = TRUE /\ State' = EmptyMap

C15_LockFailure == [][C15_LockStep]_vars

\* With the lock poisoned and entries in the store, handle answered a Get
\* with the lock error.
C15_Witness ==
    /\ poisoned
    /\ State # EmptyMap
    /\ HandleParsed(call)
    /\ tag(Parsed(call), "Action") = Some(Lit("Get"))
    /\ ret["Action"] = Lit("Error")
    /\ ret["Data"] = LockErrorText

\* The call c is a Set, by message or of the store, of the key.
SetsKey(c, r, key) ==
    \/ c.op = "set" /\ c.key = key /\ r.ok
    \/ DispatchedWithKey(c, "Set") /\ KeyTag(c) = key /\ IsResponse(r, "Set-Response")

RemovesKey(c, r, key) ==
    \/ c.op = "remove" /\ c.key = key /\ r.ok
    \/ DispatchedWithKey(c, "Remove") /\ KeyTag(c) = key /\ IsResponse(r, "Remove-Response")

Clears(c, r) ==
    \/ c.op = "clear" /\ r.ok
    \/ Dispatched(c, "Clear") /\ IsResponse(r, "Clear-Response")

EntriesText(n) == Concat(Lit("State entries: "), Digits(n))

\* C17: a dispatched Info returns an Info-Response whose data contains
\* "State entries: n", n being the number of entries of the store; and n
\* grows by 1 with a successful Set of a new key, stays with a Set of a key
\* that is present, shrinks by 1 with a Remove of a present key and is 0
\* after a Clear.
C17_InfoStep ==
    /\ Dispatched(call', "Info") =>
          /\ IsResponse(ret', "Info-Response")
          /\ Contains(ret'.val.data, EntriesText(Size_(State)))
          /\ State' = State
    /\ \A key \in Keys :
          /\ (SetsKey(call', ret', key) /\ key \notin DOMAIN State) =>
                Size_(State') = Size_(State) + 1
          /\ (SetsKey(call', ret', key) /\ key \in DOMAIN State) =>
                Size_(State') = Size_(State)
          /\ (RemovesKey(call', ret', key) /\ key \in DOMAIN State) =>
                Size_(State') = Size_(State) - 1
    /\ Clears(call', ret') => Size_(State') = 0

C17_InfoCountsEntries == [][C17_InfoStep]_vars

\* Info answered with the count of a store of NumKeys entries.
C17_Witness ==
    /\ Dispatched(call, "Info")
    /\ Size_(State) = NumKeys
    /\ IsResponse(ret, "Info-Response")
    /\ Contains(ret.val.data, EntriesText(NumKeys))

\* C18: the characters of a key are checked by the Set handler only.  A set
\* of the store inserts any key of 1 to 64 characters, whatever the
\* characters (a space, say); a dispatched Set of a key with a character
\* outside [A-Za-z0-9_-] is answered, before set is called and so with the
\* store unchanged, with the Error response "Invalid key format", returned
\* as a response and not as a failure.
C18_CharsetStep ==
    /\ ( /\ call'.op = "set"
         /\ CharCount(call'.key) \in 1..MaxKeyLen
         /\ CharCount(call'.value) <= MaxValueLen
         /\ ~poisoned ) =>
          /\ ret'.ok
          /\ call'.key \in DOMAIN State'
          /\ State'[call'.key] = call'.value
    /\ ( /\ DispatchedWithKey(call', "Set")
         /\ call'.msg.data # None
         /\ ~InAsciiClass(KeyTag(call')) ) =>
          /\ IsResponse(ret', "Error")
          /\ Contains(ret'.val.data, Lit("Invalid key format"))
          /\ State' = State

C18_CharsetIsHandlerPolicy == [][C18_CharsetStep]_vars

\* C19: in every reachable state every entry of the store has a key that is
\* not empty and no longer than 64, and a value no longer than 1000, in
\* bytes and so in characters too.
C19_EntriesWithinLimits ==
    \A key \in DOMAIN State :
        /\ key # EmptyStr
        /\ StrLen(key) <= MaxKeyLen
        /\ CharCount(key) <= MaxKeyLen
        /\ StrLen(State[key]) <= MaxValueLen
        /\ CharCount(State[key]) <= MaxValueLen

\* The store holds the longest key with the longest value, and a set of a
\* key that is too long was turned down.
C19_Witness ==
    /\ Rep("x", MaxKeyLen) \in DOMAIN State
    /\ State[Rep("x", MaxKeyLen)] = Rep("x", MaxValueLen)
    /\ call.op = "set"
    /\ StrLen(call.key) > MaxKeyLen
    /\ ~ret.ok

AllReturned == \A t \in Threads : pc[t] = "returned"

\* C12: from an empty store, when every one of the NumThreads callers has
\* set its own key to its own value and all the calls have returned, the
\* store has NumThreads entries and every key has the value its caller set,
\* however the calls were interleaved.
C12_ConcurrentSetsPersist ==
    ( /\ initial = EmptyMap
      /\ \A t \in Threads : tcall[t] = OwnSet(t)
      /\ AllReturned ) =>
        /\ Size_(State) = NumThreads
        /\ \A t \in Threads :
              /\ tret[t] = Ok(<<>>)
              /\ ThreadKey(t) \in DOMAIN State
              /\ State[ThreadKey(t)] = ThreadValue(t)

C12_Witness ==
    /\ initial = EmptyMap
    /\ \A t \in Threads : tcall[t] = OwnSet(t)
    /\ AllReturned
    /\ DOMAIN State = {ThreadKey(t) : t \in Threads}

\* The callers in every order.
ThreadOrders ==
    {o \in [1..NumThreads -> Threads] : \A i, j \in 1..NumThreads : o[i] = o[j] => i = j}

\* The store and the return values of the callers' calls made one after
\* the other in the order given, from the store map.
RECURSIVE InOrder(_, _, _)
InOrder(order, map, rets) ==
    IF order = <<>> THEN [state |-> map, rets |-> rets]
    ELSE LET r == run(tcall[Head(order)], map, FALSE)
         IN  InOrder(Tail(order), r.state, [rets EXCEPT ![Head(order)] = r.res])

\* C13: at most one caller is inside the store at any time, and holds the
\* lock while it is; the store a caller found when it got the lock is the
\* store until it leaves (no one observes or overwrites a store another is
\* changing); a caller that has returned has released the lock; and when
\* all have returned, the store and every return value are those of the
\* calls made one after the other in some order.
C13_ExclusiveAccess ==
    /\ Cardinality({t \in Threads : pc[t] = "inside"}) <= 1
    /\ \A t \in Threads :
          /\ pc[t] = "inside" => lock = t /\ view[t] = State
          /\ pc[t] = "returned" => lock # t
          /\ (pc[t] = "called" \/ pc[t] = "returned") => acquired[t] <= 1
    /\ AllReturned =>
          \E order \in ThreadOrders :
              LET outcome == InOrder(order, initial, [t \in Threads |-> NoCall])
              IN  outcome.state = State /\ outcome.rets = tret

\* A clear and a set ran against a store of two entries, the set last.
C13_Witness ==
    /\ AllReturned
    /\ Cardinality(DOMAIN initial) = 2
    /\ tcall[1] = [op |-> "clear"]
    /\ tcall[2] = OwnSet(2)
    /\ ThreadKey(2) \in DOMAIN State
    /\ State[ThreadKey(2)] = ThreadValue(2)
    /\ SharedKey \notin DOMAIN State

\* C16: with callers that are scheduled fairly, every call returns in the
\* end, a call of handle with an encoded response; and the lock never keeps
\* a call from returning: the lock is held only by a caller that is inside
\* the store, which leaves without waiting for anything.
C16_EveryCallReturns ==
    /\ [](lock # 0 => pc[lock] = "inside")
    /\ \A t \in Threads :
          (pc[t] = "called") ~>
              (pc[t] = "returned"
                 /\ (tcall[t].op = "handle" => IsEncodedResponse(tret[t])))

\* A call of handle waits for the lock another caller holds.
C16_Witness ==
    \E t \in Threads :
        /\ pc[t] = "called"
        /\ tcall[t].op = "handle"
        /\ comes_to_the_lock(tcall[t])
        /\ lock # 0
        /\ lock # t

RemoveCall == [op |-> "handle", raw |-> to_json(RemoveMessage)]

\* Can the call change whether the key is in the store?
Touches(c, key) ==
    \/ c.op = "clear"
    \/ c.op \in {"set", "remove"} /\ c.key = key
    \/ /\ c.op = "handle"
       /\ from_str(c.raw).ok
       /\ \/ tag(from_str(c.raw).val, "Action") = Some(Lit("Clear"))
          \/ /\ tag(from_str(c.raw).val, "Action") \in {Some(Lit("Set")), Some(Lit("Remove"))}
             /\ tag(from_str(c.raw).val, "Key") = Some(key)

Removed(r) ==
    /\ r["Action"] = Lit("Remove-Response")
    /\ r["Data"] = Concat(Lit("Successfully removed "), SharedKey)

RemoveFoundNothing(r) ==
    /\ r["Action"] = Lit("Remove-Response")
    /\ r["Data"] = ConcatAll(<<Lit("Key "), SharedKey, Lit(" not found")>>)

\* C20: no call acquires the lock more than once; and when two callers
\* dispatch Remove of the same key, which is present, while no other call
\* touches the key, one of the two is answered "Successfully removed k" and
\* the other "Key k not found", and the key is gone.
C20_OneAcquisition ==
    /\ \A t \in Threads : acquired[t] <= 1
    /\ \A t, u \in Threads :
          ( /\ t # u
            /\ tcall[t] = RemoveCall
            /\ tcall[u] = RemoveCall
            /\ \A x \in Threads \ {t, u} : ~Touches(tcall[x], SharedKey)
            /\ SharedKey \in DOMAIN initial
            /\ AllReturned ) =>
              /\ \/ Removed(tret[t]) /\ RemoveFoundNothing(tret[u])
                 \/ Removed(tret[u]) /\ RemoveFoundNothing(tret[t])
              /\ SharedKey \notin DOMAIN State

C20_Witness ==
    /\ tcall[1] = RemoveCall
    /\ tcall[2] = RemoveCall
    /\ SharedKey \in DOMAIN initial
    /\ AllReturned
    /\ Removed(tret[2])
    /\ RemoveFoundNothing(tret[1])
    /\ \A t \in Threads : acquired[t] = 1

\* The maps agree on every key but the one given.
SameButFor(before, after, key) ==
    /\ DOMAIN before \ {key} = DOMAIN after \ {key}
    /\ \A x \in DOMAIN before \ {key} : after[x] = before[x]

\* The dispatch ended in a failure or in an Error response.
EndedInError(r) == ~r.ok \/ r.val.action = Lit("Error")

\* C21: a dispatched Info, Get or List, a message with no Action or an
\* unknown one, and a Set, Get or Remove that ends in an Error response or
\* a failure, leave the store as it was; a Set that succeeds changes the
\* entry of its key and no other, a Remove that succeeds deletes the entry
\* of its key and no other.
C21_FrameStep ==
    call'.op = "handle_message" =>
        LET action == tag(call'.msg, "Action")
        IN  /\ action \in {Some(Lit("Info")), Some(Lit("Get")), Some(Lit("List"))} =>
                  State' = State
            /\ (action = None \/ action[1] \notin KnownActions) => State' = State
            /\ ( /\ action \in {Some(Lit("Set")), Some(Lit("Get")), Some(Lit("Remove"))}
                 /\ EndedInError(ret') ) => State' = State
            /\ IsResponse(ret', "Set-Response") =>
                  /\ SameButFor(State, State', KeyTag(call'))
                  /\ KeyTag(call') \in DOMAIN State'
                  /\ State'[KeyTag(call')] = call'.msg.data[1]
            /\ IsResponse(ret', "Remove-Response") =>
                  /\ SameButFor(State, State', KeyTag(call'))
                  /\ KeyTag(call') \notin DOMAIN State'

C21_Frame == [][C21_FrameStep]_vars

\* A Remove took one entry out of a full store and left the others.
C21_Witness ==
    /\ Dispatched(call, "Remove")
    /\ IsResponse(ret, "Remove-Response")
    /\ Contains(ret.val.data, Lit("Successfully removed "))
    /\ Size_(State) = NumKeys - 1

\* A Set of a key with a space was turned down with the store full.
C21_WitnessTurnedDown ==
    /\ DispatchedWithKey(call, "Set")
    /\ KeyTag(call) = KeyWithSpace
    /\ IsResponse(ret, "Error")
    /\ Size_(State) = NumKeys

\* The Get-Response that says "Not found" to the sender of msg about key.
NotFoundResponse(msg, key) ==
    [target |-> SenderOrUnknown(msg),
     action |-> Lit("Get-Response"),
     data |-> NotFound,
     extra_fields |-> [f \in {"Key"} |-> key]]

\* C22: a dispatched Get of a key answers with the data "Not found" exactly
\* when the key is absent or its value is the text "Not found", and in both
\* cases with the same response: same target, action, data and extension
\* fields.
C22_NotFoundIsAmbiguous ==
    DispatchedWithKey(call, "Get") =>
        /\ IsResponse(ret, "Get-Response")
        /\ ret.val.data = NotFound <=>
              \/ KeyTag(call) \notin DOMAIN State
              \/ State[KeyTag(call)] = NotFound
        /\ ( \/ KeyTag(call) \notin DOMAIN State
             \/ State[KeyTag(call)] = NotFound ) =>
              ret.val = NotFoundResponse(call.msg, KeyTag(call))

\* A Get of a key whose value is "Not found" was answered, while another
\* key holds the text that is close to it.
C22_Witness ==
    /\ DispatchedWithKey(call, "Get")
    /\ KeyTag(call) \in DOMAIN State
    /\ State[KeyTag(call)] = NotFound
    /\ ret.ok
    /\ ret.val.data = NotFound
    /\ \E k \in DOMAIN State : State[k] = AlmostNotFound

====
